---- MODULE Spec2Model ----
(***************************************************************************)
(* A model of the channel export service of src/app.py: one POST /export   *)
(* request (export) against a chat server.  The request first loads the    *)
(* user index (get_users), then for every requested channel identifier     *)
(* fetches the channel, pages through its posts, simplifies the posts in   *)
(* chronological order and appends one export document to the result.      *)
(*                                                                         *)
(* The chat server is the environment: its posts, users, channels and      *)
(* teams are fixed when the request starts; every remote call may fail.    *)
(***************************************************************************)
EXTENDS Integers, Sequences, FiniteSets, TLC

VARIABLES
    srvPosts,         \* server: channel id -> its posts, newest first
    srvUsers,         \* server: the users the list endpoint delivers, in its order
    channels,         \* request: data.get('channels'), the channel ids
    download_files,   \* request: config["download_files"]
    before_arg,       \* request: config.get("before"): <<>> (None) or <<day>>
    after_arg,        \* request: config.get("after"):  <<>> (None) or <<day>>
    pc,               \* where the request handler is
    user_id_to_name,  \* the user index shared by all channels of the request
    upage,            \* get_users: page
    ci,               \* export: position of the for loop in channels (1-based)
    channel,          \* export: the channel record being exported
    before,           \* export_channel: before, after conversion
    after,            \* export_channel: after, after conversion
    page,             \* export_channel: page
    all_posts,        \* export_channel: all_posts
    cursor,           \* export_channel: how many items the enumerate loop has taken
    simple_posts,     \* export_channel: simple_posts
    simple_post,      \* export_channel: simple_post under construction
    fidx,             \* export_channel: position of the file loop (1-based)
    filenames,        \* export_channel: filenames
    result,           \* export: result
    response,         \* what the request answered: <<>> while it runs
    pageReqs,         \* page indices asked of get_posts_for_channel, this channel
    userLookups,      \* ids asked of users.get_user(id), this request
    lastFetch,        \* outcome of the latest files.get_file call
    fileTries,        \* failed get_file calls for the file at hand, modulo TriesWrap
    err,              \* the exception that ended the request, <<>> if none
    userPageReqs,     \* page indices asked of users.get_users, this request
    my_user_id,       \* select_channel: my_user_id
    sel_channels,     \* select_channel: what get_channels_for_user delivers
    sel_result        \* select_channel: what the call came to, <<>> before it

vars == <<srvPosts, channels, download_files, before_arg, after_arg, pc,
          user_id_to_name, upage, ci, channel, before, after, page, all_posts,
          cursor, simple_posts, simple_post, fidx, filenames, result, response,
          pageReqs, userLookups, lastFetch, fileTries, err, srvUsers,
          userPageReqs, my_user_id, sel_channels, sel_result>>

(***************************************************************************)
(* Bounds of the model.                                                    *)
(***************************************************************************)
\* longest post history of a channel
MaxPosts == 3
\* most channel ids in one request
MaxChannels == 2
\* page size of the paginated endpoints (the code asks for 200 per page;
\* the model serves pages of this size)
PerPage == 2
\* latest calendar day a before/after boundary names (day 0 = 1970-01-01)
MaxDay == 1
\* the failed fetches of a file are counted modulo this
TriesWrap == 2

(***************************************************************************)
(* Time.                                                                   *)
(***************************************************************************)
\* seconds of a calendar day
DaySeconds == 86400
\* create_at is in milliseconds
MsPerSecond == 1000

\* datetime.strptime(s, '%Y-%m-%d').timestamp(): local midnight of the day,
\* for a process whose local zone is UTC
StrpTimestamp(day) == day * DaySeconds

\* "if after: after = ...timestamp()": a given date becomes an instant
ToInstant(arg) == IF arg # <<>> THEN <<StrpTimestamp(arg[1])>> ELSE arg

\* Python truth of a converted boundary: None and 0.0 are both false
Truthy(bound) == bound # <<>> /\ bound[1] # 0

\* (before and created > before) or (after and created < after),
\* with created = create_at / 1000
Excluded(post, b, a) ==
    \/ (Truthy(b) /\ post.create_at > b[1] * MsPerSecond)
    \/ (Truthy(a) /\ post.create_at < a[1] * MsPerSecond)

\* datetime.utcfromtimestamp(create_at / 1000).strftime('%Y-%m-%dT%H:%M:%SZ'):
\* the date (as its day number) and the time of day, whole seconds
FormatCreated(create_at) ==
    LET s == create_at \div MsPerSecond
    IN  <<s \div DaySeconds, (s % DaySeconds) \div 3600,
          (s % 3600) \div 60, s % 60>>

(***************************************************************************)
(* The chat server.                                                        *)
(***************************************************************************)
Channels == {"c1", "c2"}

\* users.get_user(id)["username"]
Username(id) ==
    CASE id = "u1" -> "alice"
      [] id = "u2" -> "bob"
      [] OTHER     -> "carol"

\* the users the list endpoint delivers, in its order
ListedUsers == <<[id |-> "u1", username |-> Username("u1")],
                 [id |-> "u2", username |-> Username("u2")]>>

\* channels.get_channel(channel_id)
GetChannel(id) ==
    [id |-> id, name |-> id, display_name |-> id, header |-> "",
     type |-> "O", team_id |-> IF id = "c1" THEN "t1" ELSE "t2"]

\* teams.get_team(team_id)["name"]
TeamName(team_id) == IF team_id = "t1" THEN "red" ELSE "blue"

File(id, name) == [id |-> id, name |-> name]

\* the backtick character of a message
Tick == "tick"

\* the fence marker, three backticks
Fence == <<Tick, Tick, Tick>>

\* Every post that may exist in a channel, newest first.  The history
\* of a channel is any selection of at most MaxPosts of them, in this order.
PostPool(c) ==
    IF c = "c1"
    THEN << [id |-> "a4", create_at |-> DaySeconds * MsPerSecond + MsPerSecond,
             user_id |-> "u1", message |-> Fence \o <<"x">> \o Fence,
             metadata |-> [files |-> <<File("f1", "a.txt"), File("f2", "b.txt")>>]],
            [id |-> "a3", create_at |-> DaySeconds * MsPerSecond,
             user_id |-> "u3", message |-> <<"h", "i">>,
             metadata |-> [embeds |-> <<>>]],
            [id |-> "a2", create_at |-> DaySeconds * MsPerSecond,
             user_id |-> "u3", message |-> Fence \o Fence,
             metadata |-> [files |-> <<File("f3", "c.txt")>>]],
            [id |-> "a1", create_at |-> DaySeconds * MsPerSecond - MsPerSecond,
             user_id |-> "u2", message |-> <<"a">> \o Fence,
             metadata |-> [files |-> <<>>]] >>
    ELSE << [id |-> "b2", create_at |-> MsPerSecond,
             user_id |-> "u3", message |-> <<"y">> \o Fence \o <<"z">> \o Fence \o <<Tick>>,
             metadata |-> [files |-> <<File("f4", "d.txt")>>]],
            [id |-> "b1", create_at |-> 0,
             user_id |-> "u1", message |-> <<>>,
             metadata |-> [embeds |-> <<>>]] >>

\* the elements of seq at the positions in S, in the order of seq
Select(seq, S) ==
    [k \in 1..Cardinality(S) |->
        seq[CHOOSE i \in S : Cardinality({j \in S : j < i}) = k - 1]]

Histories(c) ==
    {Select(PostPool(c), S) :
        S \in {T \in SUBSET (1..Len(PostPool(c))) : Cardinality(T) <= MaxPosts}}

Min(a, b) == IF a < b THEN a ELSE b

\* posts.get_posts_for_channel(id, per_page, page): the page's posts as an
\* ordering array and an id -> post mapping
PostPage(posts, p) ==
    LET slice == SubSeq(posts, p * PerPage + 1, Min((p + 1) * PerPage, Len(posts)))
        ids   == {slice[k].id : k \in 1..Len(slice)}
    IN  [order |-> [k \in 1..Len(slice) |-> slice[k].id],
         posts |-> [i \in ids |-> CHOOSE q \in {slice[k] : k \in 1..Len(slice)} : q.id = i]]

\* users.get_users(per_page, page)
UserPage(p) ==
    SubSeq(srvUsers, p * PerPage + 1, Min((p + 1) * PerPage, Len(srvUsers)))

(***************************************************************************)
(* Pure parts of export_channel.                                           *)
(***************************************************************************)
\* a paging loop that stops at the first page that is not full
EndOfPostsShort(posts) == Cardinality(DOMAIN posts.posts) < PerPage

\* len(posts["posts"]) == 0
EndOfPosts(posts) == Cardinality(DOMAIN posts.posts) = 0

\* [posts["posts"][post] for post in posts["order"]]
Expand(posts) == [k \in 1..Len(posts.order) |-> posts.posts[posts.order[k]]]
\* a loop over all_posts as fetched, newest first
NotReversed(s) == s

\* reversed(all_posts)
Reversed(s) == [k \in 1..Len(s) |-> s[Len(s) + 1 - k]]
\* an enumeration that counts from one
EnumerateFromOne(s) == [k \in 1..Len(s) |-> [i |-> k, post |-> s[k]]]

\* enumerate(...): pairs of a zero-based position and an element
Enumerate(s) == [k \in 1..Len(s) |-> [i |-> k - 1, post |-> s[k]]]

\* the fence marker starts at the zero-based position i of message m
FenceAt(m, i) ==
    i + 3 <= Len(m) /\ m[i + 1] = Tick /\ m[i + 2] = Tick /\ m[i + 3] = Tick

RECURSIVE CountFrom(_, _)
CountFrom(m, i) ==
    IF i + 3 > Len(m) THEN 0
    ELSE IF FenceAt(m, i) THEN 1 + CountFrom(m, i + 3)
    ELSE CountFrom(m, i + 1)

\* message.count(fence): occurrences that do not overlap, left to right
Count(m) == CountFrom(m, 0)

FencePositions(m) == {i \in 0..Len(m) : FenceAt(m, i)}

\* message.find(fence), message.rfind(fence)
Find(m)  == CHOOSE i \in FencePositions(m) : \A j \in FencePositions(m) : i <= j
RFind(m) == CHOOSE i \in FencePositions(m) : \A j \in FencePositions(m) : i >= j

\* message[start_pos:end_pos]
Slice(m, start_pos, end_pos) == SubSeq(m, start_pos + 1, end_pos)

\* an extraction that keeps a block of no length
WithCodeEvenEmpty(sp, message) ==
    IF Count(message) > 1
    THEN [f \in DOMAIN sp \cup {"code"} |->
             IF f = "code"
             THEN Slice(message, Find(message) + 3, RFind(message))
             ELSE sp[f]]
    ELSE sp

\* lines 104-113: the simple_post with its code, if the message holds one
WithCode(sp, message) ==
    IF Count(message) > 1
    THEN LET cut == Slice(message, Find(message) + 3, RFind(message))
         IN  IF Len(cut) = 0 THEN sp
             ELSE [f \in DOMAIN sp \cup {"code"} |->
                      IF f = "code" THEN cut ELSE sp[f]]
    ELSE sp

\* simple_post["files"] = filenames
WithFiles(sp, names) ==
    [f \in DOMAIN sp \cup {"files"} |-> IF f = "files" THEN names ELSE sp[f]]
\* an index that counts the posts already exported
FilteredIdx(i, done) == Len(done)

\* line 102: idx of the simple_post
SimpleIdx(i, done) == i

\* lines 100-113: the record of a retained post, before its files
Simplify(item, username, done) ==
    WithCode([idx |-> SimpleIdx(item.i, done), id |-> item.post.id,
              created |-> FormatCreated(item.post.create_at),
              username |-> username, message |-> item.post.message],
             item.post.message)

\* a store that forgets what it held
PutFresh(m, id, name) == [u \in {id} |-> name]

\* user_id_to_name[user_id] = ...
Put(m, id, name) ==
    [u \in DOMAIN m \cup {id} |-> IF u = id THEN name ELSE m[u]]

\* a lookup that hands out the bare id on a miss
ResolveStale(m, user_id) ==
    [index    |-> IF user_id \notin DOMAIN m
                  THEN Put(m, user_id, Username(user_id)) ELSE m,
     username |-> IF user_id \notin DOMAIN m THEN user_id ELSE m[user_id]]

\* a lookup that does not keep what it found
ResolveNoStore(m, user_id) ==
    [index    |-> m,
     username |-> IF user_id \notin DOMAIN m THEN Username(user_id) ELSE m[user_id]]

\* lines 96-99: the index after the author was resolved, and the username
Resolve(m, user_id) ==
    LET index == IF user_id \notin DOMAIN m
                 THEN Put(m, user_id, Username(user_id)) ELSE m
    IN  [index |-> index, username |-> index[user_id]]

\* lines 132-143: the export document (exported_at, the wall clock at
\* assembly, is left out)
Output(ch, posts) ==
    [channel |-> [name |-> ch.name, display_name |-> ch.display_name,
                  header |-> ch.header, id |-> ch.id,
                  team |-> TeamName(ch.team_id), team_id |-> ch.team_id],
     posts |-> posts]
\* a result that grows at its head
PrependDoc(res, doc) == <<doc>> \o res

\* result.append(...)
AppendDoc(res, doc) == Append(res, doc)

\* a paging loop that stops at the first page that is not full
EndOfUsersShort(users_resp) == Len(users_resp) < PerPage

\* line 34: len(users_resp) == 0
EndOfUsers(users_resp) == Len(users_resp) = 0

\* for user in users_resp: user_id_to_name[user["id"]] = user["username"]
PutAll(m, users) ==
    LET ids == {users[k].id : k \in 1..Len(users)}
    IN  [u \in DOMAIN m \cup ids |->
            IF u \in ids
            THEN (CHOOSE x \in {users[k] : k \in 1..Len(users)} : x.id = u).username
            ELSE m[u]]

\* lines 119-128: what one turn of the file loop leaves in filenames; the
\* append stands inside "if download_files", after the fetch
AfterFile(names, file, download) ==
    IF download THEN Append(names, file.name) ELSE names

\* the file loop of a post when nothing is fetched
RECURSIVE FileLoop(_, _, _)
FileLoop(files, names, download) ==
    IF files = <<>> THEN names
    ELSE FileLoop(Tail(files), AfterFile(names, Head(files), download), download)

(***************************************************************************)
(* The request.                                                            *)
(***************************************************************************)
ChannelLists == UNION {[1..n -> Channels] : n \in 0..MaxChannels}

DateArgs == {<<>>} \cup {<<d>> : d \in 0..MaxDay}

Init ==
    /\ srvPosts \in {f \in [Channels -> UNION {Histories(c) : c \in Channels}] :
                        \A c \in Channels : f[c] \in Histories(c)}
    /\ channels \in ChannelLists
    /\ download_files \in BOOLEAN
    /\ before_arg \in DateArgs
    /\ after_arg \in DateArgs
    /\ pc = "get_me"
    /\ user_id_to_name = [u \in {} |-> ""]
    /\ upage = 0
    /\ ci = 0
    /\ channel = <<>>
    /\ before = <<>>
    /\ after = <<>>
    /\ page = 0
    /\ all_posts = <<>>
    /\ cursor = 0
    /\ simple_posts = <<>>
    /\ simple_post = <<>>
    /\ fidx = 0
    /\ filenames = <<>>
    /\ result = <<>>
    /\ response = <<>>
    /\ pageReqs = <<>>
    /\ userLookups = <<>>
    /\ lastFetch = "none"
    /\ fileTries = 0
    /\ err = <<>>
    /\ srvUsers = ListedUsers
    /\ userPageReqs = <<>>
    /\ my_user_id = ""
    /\ sel_channels = <<>>
    /\ sel_result = <<>>

request == <<srvPosts, srvUsers, channels, download_files, before_arg, after_arg>>
listing == <<my_user_id, sel_channels, sel_result>>
locals  == <<channel, before, after, page, all_posts, cursor, simple_posts,
             simple_post, fidx, filenames>>

\* an exception nothing catches leaves export: the request answers 500
Raise(kind) ==
    /\ pc' = "failed"
    /\ err' = <<[kind |-> kind, at |-> pc, channel |-> ci]>>
    /\ response' = <<[status |-> 500, body |-> <<>>]>>

\* get_users, line 25: d.users.get_user("me")
GetMe ==
    /\ pc = "get_me"
    /\ pc' = "list_users"
    /\ UNCHANGED <<request, listing, locals, user_id_to_name, upage, userPageReqs, ci, result,
                   response, pageReqs, userLookups, lastFetch, fileTries, err>>

GetMeFail ==
    /\ pc = "get_me"
    /\ Raise("NotFound")
    /\ UNCHANGED <<request, listing, locals, user_id_to_name, upage, userPageReqs, ci, result,
                   pageReqs, userLookups, lastFetch, fileTries>>

\* get_users, lines 32-38: one turn of the paging loop
ListUsers ==
    /\ pc = "list_users"
    /\ userPageReqs' = Append(userPageReqs, upage)
    /\ LET users_resp == UserPage(upage)
       IN  IF EndOfUsers(users_resp)
           THEN /\ pc' = "for_channel"
                /\ ci' = 1
                /\ UNCHANGED <<user_id_to_name, upage>>
           ELSE /\ user_id_to_name' = PutAll(user_id_to_name, users_resp)
                /\ upage' = upage + 1
                /\ UNCHANGED <<pc, ci>>
    /\ UNCHANGED <<request, listing, locals, result, response, pageReqs, userLookups,
                   lastFetch, fileTries, err>>

ListUsersFail ==
    /\ pc = "list_users"
    /\ userPageReqs' = Append(userPageReqs, upage)
    /\ Raise("FetchFailed")
    /\ UNCHANGED <<request, listing, locals, user_id_to_name, upage, ci, result,
                   pageReqs, userLookups, lastFetch, fileTries>>

\* export, lines 160-161, and export_channel, lines 64-74
GetChannelStep ==
    /\ pc = "for_channel"
    /\ ci <= Len(channels)
    /\ channel' = GetChannel(channels[ci])
    /\ after' = ToInstant(after_arg)
    /\ before' = ToInstant(before_arg)
    /\ page' = 0
    /\ all_posts' = <<>>
    /\ pageReqs' = <<>>
    /\ pc' = "fetch_page"
    /\ UNCHANGED <<request, listing, cursor, simple_posts, simple_post, fidx, filenames,
                   user_id_to_name, upage, userPageReqs, ci, result, response, userLookups,
                   lastFetch, fileTries, err>>

GetChannelFail ==
    /\ pc = "for_channel"
    /\ ci <= Len(channels)
    /\ Raise("NotFound")
    /\ UNCHANGED <<request, listing, locals, user_id_to_name, upage, userPageReqs, ci, result,
                   pageReqs, userLookups, lastFetch, fileTries>>

\* export, line 165: the loop is over, the result is the answer
Respond ==
    /\ pc = "for_channel"
    /\ ci > Len(channels)
    /\ response' = <<[status |-> 200, body |-> result]>>
    /\ pc' = "done"
    /\ UNCHANGED <<request, listing, locals, user_id_to_name, upage, userPageReqs, ci, result,
                   pageReqs, userLookups, lastFetch, fileTries, err>>

\* export_channel, lines 75-84: one turn of the paging loop
FetchPage ==
    /\ pc = "fetch_page"
    /\ pageReqs' = Append(pageReqs, page)
    /\ LET posts == PostPage(srvPosts[channel.id], page)
       IN  IF EndOfPosts(posts)
           THEN /\ pc' = "transform"
                /\ cursor' = 0
                /\ simple_posts' = <<>>
                /\ UNCHANGED <<page, all_posts>>
           ELSE /\ all_posts' = all_posts \o Expand(posts)
                /\ page' = page + 1
                /\ UNCHANGED <<pc, cursor, simple_posts>>
    /\ UNCHANGED <<request, listing, channel, before, after, simple_post, fidx,
                   filenames, user_id_to_name, upage, userPageReqs, ci, result, response,
                   userLookups, lastFetch, fileTries, err>>
\* a failed page fetch that exports the pages fetched so far
FetchPagePartial ==
    /\ pc = "fetch_page"
    /\ pageReqs' = Append(pageReqs, page)
    /\ pc' = "failed"
    /\ err' = <<[kind |-> "FetchFailed", at |-> pc, channel |-> ci]>>
    /\ result' = Append(result, Output(channel, all_posts))
    /\ response' = <<[status |-> 200, body |-> result']>>
    /\ UNCHANGED <<request, listing, locals, user_id_to_name, upage, userPageReqs, ci, userLookups,
                   lastFetch, fileTries>>

FetchPageFail ==
    /\ pc = "fetch_page"
    /\ pageReqs' = Append(pageReqs, page)
    /\ Raise("FetchFailed")
    /\ UNCHANGED <<request, listing, locals, user_id_to_name, upage, userPageReqs, ci, result,
                   userLookups, lastFetch, fileTries>>

\* line 89: the item the loop takes next
Item == Enumerate(Reversed(all_posts))[cursor + 1]

\* a loop that resolves the author before it looks at the dates
SkipPostResolving ==
    /\ pc = "transform"
    /\ cursor < Len(all_posts)
    /\ Excluded(Item.post, before, after)
    /\ user_id_to_name' = Resolve(user_id_to_name, Item.post.user_id).index
    /\ userLookups' = IF Item.post.user_id \notin DOMAIN user_id_to_name
                      THEN Append(userLookups, Item.post.user_id)
                      ELSE userLookups
    /\ cursor' = cursor + 1
    /\ UNCHANGED <<request, listing, channel, before, after, page, all_posts,
                   simple_posts, simple_post, fidx, filenames, pc,
                   upage, userPageReqs, ci, result, response, pageReqs,
                   lastFetch, fileTries, err>>

\* lines 91-94: the post is outside the date range
SkipPost ==
    /\ pc = "transform"
    /\ cursor < Len(all_posts)
    /\ Excluded(Item.post, before, after)
    /\ cursor' = cursor + 1
    /\ UNCHANGED <<request, listing, channel, before, after, page, all_posts,
                   simple_posts, simple_post, fidx, filenames, pc,
                   user_id_to_name, upage, userPageReqs, ci, result, response, pageReqs,
                   userLookups, lastFetch, fileTries, err>>

\* lines 96-130 for a retained post, up to its first file fetch
SimplifyPost ==
    /\ pc = "transform"
    /\ cursor < Len(all_posts)
    /\ ~Excluded(Item.post, before, after)
    /\ LET post    == Item.post
           user_id == post.user_id
           miss    == user_id \notin DOMAIN user_id_to_name
           found   == Resolve(user_id_to_name, user_id)
           sp      == Simplify(Item, found.username, simple_posts)
       IN  /\ user_id_to_name' = found.index
           /\ userLookups' = IF miss THEN Append(userLookups, user_id)
                                     ELSE userLookups
           /\ IF "files" \in DOMAIN post.metadata
              THEN IF download_files /\ post.metadata.files # <<>>
                   THEN /\ pc' = "download"
                        /\ simple_post' = sp
                        /\ fidx' = 1
                        /\ filenames' = <<>>
                        /\ lastFetch' = "none"
                        /\ fileTries' = 0
                        /\ UNCHANGED <<cursor, simple_posts>>
                   ELSE /\ simple_posts' = Append(simple_posts,
                              WithFiles(sp, FileLoop(post.metadata.files, <<>>,
                                                     download_files)))
                        /\ cursor' = cursor + 1
                        /\ UNCHANGED <<pc, simple_post, fidx, filenames, lastFetch, fileTries>>
              ELSE /\ simple_posts' = Append(simple_posts, sp)
                   /\ cursor' = cursor + 1
                   /\ UNCHANGED <<pc, simple_post, fidx, filenames, lastFetch, fileTries>>
    /\ UNCHANGED <<request, listing, channel, before, after, page, all_posts, upage, userPageReqs, ci,
                   result, response, pageReqs, err>>

\* line 98: the single-user lookup of a missing author fails
GetUserFail ==
    /\ pc = "transform"
    /\ cursor < Len(all_posts)
    /\ ~Excluded(Item.post, before, after)
    /\ Item.post.user_id \notin DOMAIN user_id_to_name
    /\ userLookups' = Append(userLookups, Item.post.user_id)
    /\ Raise("NotFound")
    /\ UNCHANGED <<request, listing, locals, user_id_to_name, upage, userPageReqs, ci, result,
                   pageReqs, lastFetch, fileTries>>

\* lines 122-128: d.files.get_file answers; the file loop moves on, and
\* after the last file the post is appended (lines 129-130)
GetFileOK ==
    /\ pc = "download"
    /\ lastFetch' = "ok"
    /\ fileTries' = 0
    /\ LET files == Item.post.metadata.files
           names == AfterFile(filenames, files[fidx], download_files)
       IN  IF fidx = Len(files)
           THEN /\ simple_posts' = Append(simple_posts, WithFiles(simple_post, names))
                /\ cursor' = cursor + 1
                /\ pc' = "transform"
                /\ simple_post' = <<>>
                /\ fidx' = 0
                /\ filenames' = <<>>
           ELSE /\ filenames' = names
                /\ fidx' = fidx + 1
                /\ UNCHANGED <<simple_posts, cursor, pc, simple_post>>
    /\ UNCHANGED <<request, listing, channel, before, after, page, all_posts,
                   user_id_to_name, upage, userPageReqs, ci, result, response, pageReqs,
                   userLookups, err>>
\* a failed file fetch that gives the file up and moves on
GetFileGiveUp ==
    /\ pc = "download"
    /\ lastFetch' = "fail"
    /\ fileTries' = 0
    /\ LET files == Item.post.metadata.files
       IN  IF fidx = Len(files)
           THEN /\ simple_posts' = Append(simple_posts, WithFiles(simple_post, filenames))
                /\ cursor' = cursor + 1
                /\ pc' = "transform"
                /\ simple_post' = <<>>
                /\ fidx' = 0
                /\ filenames' = <<>>
           ELSE /\ fidx' = fidx + 1
                /\ UNCHANGED <<simple_posts, cursor, pc, simple_post, filenames>>
    /\ UNCHANGED <<request, listing, channel, before, after, page, all_posts,
                   user_id_to_name, upage, userPageReqs, ci, result, response, pageReqs,
                   userLookups, err>>

\* lines 126-127: d.files.get_file raises; the bare except swallows it and
\* the while loop turns again
GetFileFail ==
    /\ pc = "download"
    /\ lastFetch' = "fail"
    /\ fileTries' = (fileTries + 1) % TriesWrap
    /\ UNCHANGED <<request, listing, locals, pc, user_id_to_name, upage, userPageReqs, ci, result,
                   response, pageReqs, userLookups, err>>

\* lines 132-145 and line 162: the document is built and appended
Assemble ==
    /\ pc = "transform"
    /\ cursor = Len(all_posts)
    /\ result' = AppendDoc(result, Output(channel, simple_posts))
    /\ ci' = ci + 1
    /\ pc' = "for_channel"
    /\ channel' = <<>>
    /\ before' = <<>>
    /\ after' = <<>>
    /\ page' = 0
    /\ all_posts' = <<>>
    /\ cursor' = 0
    /\ simple_posts' = <<>>
    /\ pageReqs' = <<>>
    /\ UNCHANGED <<request, listing, simple_post, fidx, filenames, user_id_to_name,
                   upage, userPageReqs, response, userLookups, lastFetch, fileTries, err>>

\* line 138: d.teams.get_team fails
GetTeamFail ==
    /\ pc = "transform"
    /\ cursor = Len(all_posts)
    /\ Raise("NotFound")
    /\ UNCHANGED <<request, listing, locals, user_id_to_name, upage, userPageReqs, ci, result,
                   pageReqs, userLookups, lastFetch, fileTries>>

Next ==
    \/ GetMe
    \/ GetMeFail
    \/ ListUsers
    \/ ListUsersFail
    \/ GetChannelStep
    \/ GetChannelFail
    \/ Respond
    \/ FetchPage
    \/ FetchPageFail
    \/ SkipPost
    \/ SimplifyPost
    \/ GetUserFail
    \/ GetFileOK
    \/ GetFileFail
    \/ Assemble
    \/ GetTeamFail

Spec == Init /\ [][Next]_vars

\* the requests that ask for the files to be downloaded
FairInit == Init /\ download_files

\* Such a request, when the handler runs on while it can and a file fetch
\* that is tried again and again succeeds in the end.
FairSpec == FairInit /\ [][Next]_vars /\ WF_vars(Next) /\ WF_vars(GetFileOK)

(***************************************************************************)
(* select_channel, lines 46-60.                                            *)
(*                                                                         *)
(* A channel name is a sequence of tokens, each a user id or the           *)
(* separator; splitting a string on the separator is splitting the token   *)
(* sequence at the separator tokens, and two ids next to each other make   *)
(* one part that is the id of nobody.                                      *)
(***************************************************************************)
MaxNameLen == 3

Sep == "__"

UserIds == {"u1", "u2", "u3"}

Names == UNION {[1..n -> UserIds \cup {Sep}] : n \in 0..MaxNameLen}

\* line 54: name.split("__"), the parts between the separators
RECURSIVE Split(_)
Split(name) ==
    IF name = <<>>
    THEN << <<>> >>
    ELSE LET rest == Split(Tail(name))
         IN  IF Head(name) = Sep
             THEN << <<>> >> \o rest
             ELSE << <<Head(name)>> \o Head(rest) >> \o Tail(rest)

\* lines 50-56: one pass of the loop body over a channel
Label(c, my, m) ==
    IF c.type # "D"
    THEN [error |-> "", channel |-> c]
    ELSE LET user_ids == Split(c.name)
         IN  IF user_ids[1] = <<my>> /\ Len(user_ids) < 2
             THEN [error |-> "IndexError", channel |-> c]
             ELSE LET other_user_id == IF user_ids[1] = <<my>>
                                       THEN user_ids[2] ELSE user_ids[1]
                  IN  IF Len(other_user_id) = 1 /\ other_user_id[1] \in DOMAIN m
                      THEN [error   |-> "",
                            channel |-> [c EXCEPT !.display_name = m[other_user_id[1]]]]
                      ELSE [error |-> "KeyError", channel |-> c]

\* line 58: x["display_name"].lower()
Lower(s) == IF s = "Bravo" THEN "bravo" ELSE s

\* the place of a lower-cased display name in the order of strings
Rank(s) ==
    CASE s = ""      -> 0
      [] s = "alice" -> 1
      [] s = "bob"   -> 2
      [] s = "bravo" -> 3
      [] OTHER       -> 4

SortKey(c) == Rank(Lower(c.display_name))

\* line 58: sorted(channels, key=...), which keeps equal keys in their order
RECURSIVE Sorted(_)
Sorted(cs) ==
    IF cs = <<>>
    THEN <<>>
    ELSE LET rest == Sorted(Tail(cs))
             c    == Head(cs)
             n    == Cardinality({k \in 1..Len(rest) : SortKey(rest[k]) < SortKey(c)})
         IN  SubSeq(rest, 1, n) \o <<c>> \o SubSeq(rest, n + 1, Len(rest))

\* lines 49-60: the loop stops at the first channel that raises
SelectChannelResult(cs, my, m) ==
    LET labelled == [k \in 1..Len(cs) |-> Label(cs[k], my, m)]
        failed   == {k \in 1..Len(cs) : labelled[k].error # ""}
    IN  IF failed # {}
        THEN [error    |-> labelled[CHOOSE k \in failed : \A j \in failed : k <= j].error,
              channels |-> <<>>]
        ELSE [error    |-> "",
              channels |-> Sorted([k \in 1..Len(cs) |-> labelled[k].channel])]

\* channels.get_channels_for_user: a direct-message channel of some name
DirectChannel(name) ==
    [id |-> "d1", name |-> name, display_name |-> "", header |-> "",
     type |-> "D", team_id |-> "t1"]

\* channels.get_channels_for_user: a public channel, named like a
\* direct-message channel
OpenChannel ==
    [id |-> "o1", name |-> <<"u1", Sep, "u2">>, display_name |-> "Bravo",
     header |-> "", type |-> "O", team_id |-> "t1"]

\* the state of a handler that has not started
Fresh ==
    /\ upage = 0
    /\ ci = 0
    /\ channel = <<>>
    /\ before = <<>>
    /\ after = <<>>
    /\ page = 0
    /\ all_posts = <<>>
    /\ cursor = 0
    /\ simple_posts = <<>>
    /\ simple_post = <<>>
    /\ fidx = 0
    /\ filenames = <<>>
    /\ result = <<>>
    /\ response = <<>>
    /\ pageReqs = <<>>
    /\ userLookups = <<>>
    /\ lastFetch = "none"
    /\ fileTries = 0
    /\ err = <<>>
    /\ userPageReqs = <<>>

\* a call of select_channel: the caller, the index handed in (what get_users
\* built, with or without a user the listing did not deliver) and the
\* channels of the caller
SelInit ==
    /\ Fresh
    /\ srvPosts = [c \in Channels |-> <<>>]
    /\ srvUsers = ListedUsers
    /\ channels = <<>>
    /\ download_files = FALSE
    /\ before_arg = <<>>
    /\ after_arg = <<>>
    /\ pc = "select_channel"
    /\ user_id_to_name \in {PutAll(<<>>, ListedUsers),
                            Put(PutAll(<<>>, ListedUsers), "u3", Username("u3"))}
    /\ my_user_id \in {"u1", "u2"}
    /\ \E name \in Names :
          sel_channels \in {<<DirectChannel(name), OpenChannel>>,
                            <<OpenChannel, DirectChannel(name)>>}
    /\ sel_result = <<>>

SelectChannel ==
    /\ pc = "select_channel"
    /\ sel_result' = <<SelectChannelResult(sel_channels, my_user_id, user_id_to_name)>>
    /\ pc' = "selected"
    /\ UNCHANGED <<request, locals, my_user_id, sel_channels, user_id_to_name, upage,
                   userPageReqs, ci, result, response, pageReqs, userLookups,
                   lastFetch, fileTries, err>>

SelNext == SelectChannel

SelectSpec == SelInit /\ [][SelNext]_vars

(***************************************************************************)
(* Requests over every message text and over every user listing.           *)
(***************************************************************************)
MaxMsgLen == 7

\* the message texts: ticks and other characters in every arrangement
Messages == UNION {[1..n -> {Tick, "x"}] : n \in 0..MaxMsgLen}

\* a request for both channels with the files, from the second day on
Fixture ==
    /\ Fresh
    /\ channels = <<"c1", "c2">>
    /\ download_files = TRUE
    /\ before_arg = <<>>
    /\ after_arg = <<1>>
    /\ pc = "get_me"
    /\ user_id_to_name = [u \in {} |-> ""]
    /\ my_user_id = ""
    /\ sel_channels = <<>>
    /\ sel_result = <<>>

\* the newest post of the first channel carries any of the message texts
CodeInit ==
    /\ Fixture
    /\ srvUsers = ListedUsers
    /\ \E m \in Messages :
          srvPosts = [c \in Channels |->
                        IF c = "c1"
                        THEN <<[PostPool(c)[1] EXCEPT !.message = m], PostPool(c)[2]>>
                        ELSE PostPool(c)]

CodeSpec == CodeInit /\ [][Next]_vars

MaxUsers == 3

\* the listings: users of different ids in any order, as many as MaxUsers
UserLists ==
    {us \in UNION {[1..n -> {[id |-> u, username |-> Username(u)] : u \in UserIds}] :
                      n \in 0..MaxUsers} :
        \A i \in 1..Len(us) : \A j \in 1..Len(us) : us[i].id = us[j].id => i = j}

\* the user listing of the server is any of the listings
UsersInit ==
    /\ Fixture
    /\ srvUsers \in UserLists
    /\ srvPosts = [c \in Channels |-> PostPool(c)]

UsersSpec == UsersInit /\ [][Next]_vars

(***************************************************************************)
(* What the properties below speak of.                                     *)
(***************************************************************************)
\* the posts the server holds in the channel being exported
ServerPosts == srvPosts[channel.id]

CeilDiv(n, p) == (n + p - 1) \div p

\* the raw post with a given id
PostOf(id) ==
    CHOOSE q \in UNION {{PostPool(c)[k] : k \in 1..Len(PostPool(c))} : c \in Channels} :
        q.id = id

\* the documents of the request so far
Docs == {result[k] : k \in 1..Len(result)}

\* the ids of the posts of a document
DocIds(doc) == {doc.posts[k].id : k \in 1..Len(doc.posts)}

\* the instant (in milliseconds) a given boundary date names
BoundaryMs(arg) == StrpTimestamp(arg[1]) * MsPerSecond

(***************************************************************************)
(* C1.  While a channel is aggregated the pages asked for are 0, 1, 2, ... *)
(* in order and every page before the latest held posts; once aggregation  *)
(* is over, exactly ceil(N / PerPage) + 1 pages were asked for, N the      *)
(* number of posts of the channel, and the last of them was the empty one. *)
(***************************************************************************)
C1_PageFetches ==
    pc \in {"fetch_page", "transform", "download"} =>
        /\ \A k \in 1..Len(pageReqs) : pageReqs[k] = k - 1
        /\ \A k \in 1..(Len(pageReqs) - 1) : pageReqs[k] * PerPage < Len(ServerPosts)
        /\ pc # "fetch_page" =>
              /\ Len(pageReqs) = CeilDiv(Len(ServerPosts), PerPage) + 1
              /\ pageReqs[Len(pageReqs)] * PerPage >= Len(ServerPosts)
              /\ Len(all_posts) = Len(ServerPosts)

\* aggregation is over for a channel of more than one page
C1_Witness ==
    /\ pc = "transform"
    /\ Len(ServerPosts) > PerPage
    /\ Len(pageReqs) = 3

(***************************************************************************)
(* C2.  When an error ends the export of one channel, every other channel  *)
(* of the request has its document in the answer of the request.           *)
(***************************************************************************)
C2_SiblingsExported ==
    (pc = "failed" /\ err[1].channel >= 1) =>
        \A j \in 1..Len(channels) :
            channels[j] # channels[err[1].channel] =>
                \E k \in 1..Len(response[1].body) :
                    response[1].body[k].channel.id = channels[j]

(***************************************************************************)
(* C3.  The posts of every document, and the posts simplified so far, are  *)
(* in non-decreasing order of creation instant, both as the raw            *)
(* millisecond instant and as the rendered timestamp.                      *)
(***************************************************************************)
\* the seconds a rendered timestamp stands for
CreatedSeconds(t) == t[1] * DaySeconds + t[2] * 3600 + t[3] * 60 + t[4]

Chronological(posts) ==
    \A k \in 1..(Len(posts) - 1) :
        /\ PostOf(posts[k].id).create_at <= PostOf(posts[k + 1].id).create_at
        /\ CreatedSeconds(posts[k].created) <= CreatedSeconds(posts[k + 1].created)

C3_Chronological ==
    /\ \A doc \in Docs : Chronological(doc.posts)
    /\ Chronological(simple_posts)

\* a document of posts of different instants, exported under a date filter
C3_Witness ==
    \E doc \in Docs :
        /\ Len(doc.posts) >= 2
        /\ doc.posts[1].created # doc.posts[Len(doc.posts)].created
        /\ after_arg # <<>>

(***************************************************************************)
(* C4.  In every document: a post created exactly at the before instant    *)
(* is retained (unless the after boundary removes it), and likewise at     *)
(* the after instant; a post one second newer than before, or one second   *)
(* older than after, is not in the document; a boundary that is not given  *)
(* removes nothing on its side.                                            *)
(***************************************************************************)
C4_DateFilter ==
    \A doc \in Docs :
        \A k \in 1..Len(srvPosts[doc.channel.id]) :
            LET q      == srvPosts[doc.channel.id][k]
                kept   == q.id \in DocIds(doc)
                newer  == before_arg # <<>> /\ q.create_at > BoundaryMs(before_arg)
                older  == after_arg # <<>> /\ q.create_at < BoundaryMs(after_arg)
            IN  /\ (before_arg # <<>> /\ q.create_at = BoundaryMs(before_arg) /\ ~older)
                       => kept
                /\ (after_arg # <<>> /\ q.create_at = BoundaryMs(after_arg) /\ ~newer)
                       => kept
                /\ (before_arg # <<>> /\ q.create_at = BoundaryMs(before_arg) + MsPerSecond)
                       => ~kept
                /\ (after_arg # <<>> /\ q.create_at = BoundaryMs(after_arg) - MsPerSecond)
                       => ~kept
                /\ (before_arg = <<>> /\ ~older) => kept
                /\ (after_arg = <<>> /\ ~newer) => kept

(***************************************************************************)
(* C5.  In every document, the record of a post that carries file metadata *)
(* has a files field that lists the name of every attached file, in the    *)
(* order of the metadata.                                                  *)
(***************************************************************************)
FileNamesOf(q) == [k \in 1..Len(q.metadata.files) |-> q.metadata.files[k].name]

C5_FilesListed ==
    \A doc \in Docs :
        \A k \in 1..Len(doc.posts) :
            LET q == PostOf(doc.posts[k].id)
            IN  "files" \in DOMAIN q.metadata =>
                    /\ "files" \in DOMAIN doc.posts[k]
                    /\ doc.posts[k].files = FileNamesOf(q)

(***************************************************************************)
(* C6.  As claimed: in every document the k-th post (counting from zero)   *)
(* has idx = k.                                                            *)
(***************************************************************************)
C6_IdxIsPosition ==
    \A doc \in Docs :
        \A k \in 1..Len(doc.posts) : doc.posts[k].idx = k - 1

\* the posts of the channel of a document, oldest first
OldestFirst(doc) == Reversed(srvPosts[doc.channel.id])

\* how many of the first n posts of the channel, oldest first, the document
\* does not hold
Removed(doc, n) ==
    Cardinality({j \in 1..n : OldestFirst(doc)[j].id \notin DocIds(doc)})

(***************************************************************************)
(* C6, amended.  In every document the k-th post (counting from zero) has  *)
(* idx = k + the number of older posts of the channel that the date filter *)
(* removed; so idx >= k, and idx = k throughout when no boundary is given. *)
(***************************************************************************)
C6_IdxCountsRemoved ==
    \A doc \in Docs :
        \A k \in 1..Len(doc.posts) :
            LET sp == doc.posts[k]
            IN  /\ sp.idx \in 0..Len(OldestFirst(doc))
                /\ sp.idx = (k - 1) + Removed(doc, sp.idx)
                /\ sp.idx >= k - 1
                /\ (before_arg = <<>> /\ after_arg = <<>>) => sp.idx = k - 1

\* a document whose first post has an idx above its position
C6_Witness ==
    \E doc \in Docs : Len(doc.posts) >= 1 /\ doc.posts[1].idx > 0

(***************************************************************************)
(* C7.  In every document the idx of a post is the position of its raw     *)
(* post among all posts of the channel taken oldest first, whether or not  *)
(* the date filter kept them, and idx grows strictly along the document.   *)
(* (The filter removes the oldest and the newest posts of a channel, so    *)
(* the slots it uses up show as idx values that do not start at zero.)     *)
(***************************************************************************)
C7_IdxIsRawPosition ==
    \A doc \in Docs :
        \A k \in 1..Len(doc.posts) :
            /\ doc.posts[k].idx \in 0..(Len(OldestFirst(doc)) - 1)
            /\ OldestFirst(doc)[doc.posts[k].idx + 1].id = doc.posts[k].id
            /\ k > 1 => doc.posts[k - 1].idx < doc.posts[k].idx

\* a document of two posts whose idx values are 1 and 2: the removed
\* oldest post of the channel used up slot 0
C7_Witness ==
    \E doc \in Docs :
        /\ Len(doc.posts) = 2
        /\ Len(srvPosts[doc.channel.id]) = 3
        /\ doc.posts[1].idx = 1
        /\ doc.posts[2].idx = 2

(***************************************************************************)
(* C8.  A request that ends without error answers with exactly one         *)
(* document per requested channel id, the i-th document being that of the  *)
(* i-th requested id.                                                      *)
(***************************************************************************)
C8_RequestOrder ==
    pc = "done" =>
        /\ response[1].status = 200
        /\ Len(response[1].body) = Len(channels)
        /\ \A i \in 1..Len(channels) : response[1].body[i].channel.id = channels[i]

\* an answered request for two different channels
C8_Witness ==
    /\ pc = "done"
    /\ Len(channels) = 2
    /\ channels[1] # channels[2]

(***************************************************************************)
(* C9.  When a page fetch fails, the request ends with that error, no      *)
(* document was appended for the channel being aggregated (the result      *)
(* holds the documents of the channels before it only), no post of the     *)
(* channel was simplified, and the answer holds no document for it.        *)
(***************************************************************************)
C9_NoPartialExport ==
    (err # <<>> /\ err[1].at = "fetch_page") =>
        /\ pc = "failed"
        /\ err[1].kind = "FetchFailed"
        /\ Len(result) = err[1].channel - 1
        /\ simple_posts = <<>>
        /\ Len(response[1].body) < err[1].channel

\* a page fetch failed after an earlier page had delivered posts
C9_Witness ==
    /\ err # <<>>
    /\ err[1].at = "fetch_page"
    /\ all_posts # <<>>

(***************************************************************************)
(* C10.  In a request with download_files set: while a file is being       *)
(* fetched, the file loop, the post loop and the export move on only in a  *)
(* step in which the fetch succeeds: a failed fetch leaves the export at   *)
(* the same file, to be fetched again.  When every fetch that is retried   *)
(* succeeds in the end, the request ends.  (A fetch that fails forever     *)
(* therefore keeps the export at that file forever.)                       *)
(***************************************************************************)
C10_RetryUntilSuccess ==
    /\ [][(pc = "download" /\ lastFetch' # "ok") =>
             (pc' = "download" /\ fidx' = fidx /\ cursor' = cursor
              /\ filenames' = filenames /\ simple_posts' = simple_posts)]_vars
    /\ [](lastFetch = "fail" => pc = "download")
    /\ <>(pc \in {"done", "failed"})

\* the second file of a post is being fetched again after TriesWrap failures
C10_Witness ==
    /\ pc = "download"
    /\ lastFetch = "fail"
    /\ fileTries = 0
    /\ fidx = 2

(***************************************************************************)
(* C11.  A call of select_channel fails whenever a direct-message channel  *)
(* of the caller has a raw name that does not split on the separator into  *)
(* exactly two parts, or has two parts neither of which is the caller's    *)
(* id; no display name is handed out for such a channel.                   *)
(***************************************************************************)
Malformed(name, my) ==
    LET parts == Split(name)
    IN  \/ Len(parts) # 2
        \/ parts[1] # <<my>> /\ parts[2] # <<my>>

C11_MalformedNameFails ==
    pc = "selected" =>
        \A k \in 1..Len(sel_channels) :
            sel_channels[k].type = "D" /\ Malformed(sel_channels[k].name, my_user_id)
                => sel_result[1].error # ""

(***************************************************************************)
(* C12.  When every direct-message channel of the caller is named by two   *)
(* user ids joined by the separator, one of them the caller's, the call    *)
(* returns every channel, a direct-message channel with the username of    *)
(* the other participant as its display name, in whichever place the       *)
(* caller's id stands, and any other channel with the display name it had. *)
(***************************************************************************)
OtherParticipant(name, my) ==
    IF name[1] = my THEN name[3] ELSE name[1]

WellFormed(name, my) ==
    /\ Len(name) = 3
    /\ name[2] = Sep
    /\ name[1] \in UserIds
    /\ name[3] \in UserIds
    /\ my \in {name[1], name[3]}

C12_OtherParticipantNamed ==
    (/\ pc = "selected"
     /\ \A k \in 1..Len(sel_channels) :
            sel_channels[k].type = "D" => WellFormed(sel_channels[k].name, my_user_id))
        => /\ sel_result[1].error = ""
           /\ Len(sel_result[1].channels) = Len(sel_channels)
           /\ \A k \in 1..Len(sel_channels) :
                 \E j \in 1..Len(sel_result[1].channels) :
                    LET c == sel_channels[k]
                        r == sel_result[1].channels[j]
                    IN  /\ r.id = c.id
                        /\ r.display_name =
                              IF c.type = "D"
                              THEN Username(OtherParticipant(c.name, my_user_id))
                              ELSE c.display_name

(***************************************************************************)
(* C13.  A simplified post has a code field exactly when its message holds *)
(* two fence markers with something between the end of the first marker of *)
(* the message and the start of its last one, and the code then is what    *)
(* stands between the two; a message with no marker, with one, or with     *)
(* nothing between the first and the last has no code field.               *)
(***************************************************************************)
\* the simplified posts made so far: returned, being collected, in hand
Simplified ==
    UNION {{doc.posts[k] : k \in 1..Len(doc.posts)} : doc \in Docs}
        \cup {simple_posts[k] : k \in 1..Len(simple_posts)}
        \cup (IF pc = "download" THEN {simple_post} ELSE {})

\* where a marker starts in a message, counted from 1
MarkerStarts(m) ==
    {i \in 1..Len(m) : i + 2 <= Len(m) /\ \A d \in 0..2 : m[i + d] = Tick}

Smallest(S) == CHOOSE i \in S : \A j \in S : i <= j
Largest(S)  == CHOOSE i \in S : \A j \in S : i >= j

\* what stands after the first marker and before the last one
Between(m) ==
    [k \in 1..(Largest(MarkerStarts(m)) - Smallest(MarkerStarts(m)) - 3) |->
        m[Smallest(MarkerStarts(m)) + 2 + k]]

C13_CodeBetweenFences ==
    \A sp \in Simplified :
        LET m == sp.message
        IN  /\ "code" \in DOMAIN sp
                <=> /\ Cardinality(MarkerStarts(m)) >= 2
                    /\ Len(Between(m)) > 0
            /\ "code" \in DOMAIN sp => sp.code = Between(m)

\* a returned post whose message is seven ticks: its code is the one tick
\* between the first three and the last three
C13_Witness ==
    /\ pc = "done"
    /\ \E doc \in Docs : \E k \in 1..Len(doc.posts) :
          /\ doc.posts[k].message = [i \in 1..7 |-> Tick]
          /\ "code" \in DOMAIN doc.posts[k]
          /\ doc.posts[k].code = <<Tick>>

(***************************************************************************)
(* C14.  When a request names the same channel twice, so that the same raw *)
(* posts are transformed twice under the same boundaries and options, the  *)
(* two documents hold the same sequence of simplified posts, whether or    *)
(* not the first transformation added authors to the user index.           *)
(***************************************************************************)
C14_SamePostsTwice ==
    \A i \in 1..Len(result) : \A j \in 1..Len(result) :
        channels[i] = channels[j] => result[i].posts = result[j].posts

\* both documents are there, and the first run had to look an author up
C14_Witness ==
    /\ pc = "done"
    /\ Len(result) = 2
    /\ channels[1] = channels[2]
    /\ userLookups = <<"u3">>
    /\ \E k \in 1..Len(result[2].posts) : result[2].posts[k].username = Username("u3")

(***************************************************************************)
(* C15.  get_users asks for the user pages 0, 1, 2, ... in this order; by  *)
(* the time it has returned, the last page it asked for is the first one   *)
(* without entries, the index maps the id of every user delivered before   *)
(* it to the username, and no user page is asked for any more.             *)
(***************************************************************************)
C15_UserPaging ==
    LET n == Len(userPageReqs)
    IN  /\ userPageReqs = [k \in 1..n |-> k - 1]
        /\ ci >= 1 =>
              /\ n >= 1
              /\ (n - 1) * PerPage >= Len(srvUsers)
              /\ n >= 2 => (n - 2) * PerPage < Len(srvUsers)
              /\ \A k \in 1..Len(srvUsers) :
                    /\ srvUsers[k].id \in DOMAIN user_id_to_name
                    /\ user_id_to_name[srvUsers[k].id] = srvUsers[k].username

\* posts are being exported after a listing of a full page, a page that is
\* not full and the empty page
C15_Witness ==
    /\ pc = "transform"
    /\ Len(srvUsers) = PerPage + 1
    /\ userPageReqs = <<0, 1, 2>>
    /\ DOMAIN user_id_to_name = UserIds

(***************************************************************************)
(* C16.  From the return of get_users on, no step takes a key out of the   *)
(* user index or changes the username of a key; a remote lookup is made    *)
(* only for an id that is not a key; and a key comes in only as the author *)
(* of the post in hand, together with the lookup of that author.           *)
(***************************************************************************)
C16_IndexOnlyGrows ==
    [][ci >= 1 =>
          /\ DOMAIN user_id_to_name \subseteq DOMAIN user_id_to_name'
          /\ \A u \in DOMAIN user_id_to_name : user_id_to_name'[u] = user_id_to_name[u]
          /\ userLookups' # userLookups =>
                \E u \in UserIds : /\ userLookups' = Append(userLookups, u)
                                   /\ u \notin DOMAIN user_id_to_name
          /\ \A u \in DOMAIN user_id_to_name' \ DOMAIN user_id_to_name :
                /\ pc = "transform"
                /\ cursor < Len(all_posts)
                /\ u = Item.post.user_id
                /\ userLookups' = Append(userLookups, u)]_vars

\* one channel with two posts of an author the listing did not deliver: one
\* lookup, and both posts carry the username
C16_Witness ==
    /\ ci = 1
    /\ pc = "transform"
    /\ userLookups = <<"u3">>
    /\ DOMAIN user_id_to_name = UserIds
    /\ Cardinality({k \in 1..Len(simple_posts) :
                       simple_posts[k].username = Username("u3")}) = 2

(***************************************************************************)
(* C17.  Over a whole request the single-user lookup is made at most once  *)
(* for an id, and never for the id of a user that get_users loaded: the    *)
(* index is the same for all the channels of the request.                  *)
(***************************************************************************)
C17_LookupOncePerAuthor ==
    /\ \A i \in 1..Len(userLookups) : \A j \in 1..Len(userLookups) :
          userLookups[i] = userLookups[j] => i = j
    /\ \A i \in 1..Len(userLookups) : \A k \in 1..Len(srvUsers) :
          userLookups[i] # srvUsers[k].id

\* two different channels, each with a returned post of the same unlisted
\* author, and one lookup in all
C17_Witness ==
    /\ pc = "done"
    /\ Len(result) = 2
    /\ result[1].channel.id # result[2].channel.id
    /\ \A d \in 1..2 : \E k \in 1..Len(result[d].posts) :
          PostOf(result[d].posts[k].id).user_id = "u3"
    /\ userLookups = <<"u3">>

(***************************************************************************)
(* C18.  The step over a post that the date filter excludes moves on to    *)
(* the next post and does nothing else: no lookup, no new key in the user  *)
(* index, no file fetch, no record; and no record of an excluded post is   *)
(* ever among the simplified posts.                                        *)
(***************************************************************************)
C18_ExcludedPostNoEffect ==
    /\ [](\A k \in 1..Len(simple_posts) :
             ~Excluded(PostOf(simple_posts[k].id), before, after))
    /\ [][(/\ pc = "transform"
           /\ cursor < Len(all_posts)
           /\ Excluded(Item.post, before, after))
            => /\ cursor' = cursor + 1
               /\ UNCHANGED <<user_id_to_name, userLookups, simple_posts, simple_post,
                              pc, fidx, filenames, lastFetch, fileTries, result,
                              response, err, pageReqs, userPageReqs>>]_vars

\* the post just passed over was excluded, its author is not in the index,
\* and it has a file that the request asks to download
C18_Witness ==
    /\ pc = "transform"
    /\ cursor >= 1
    /\ download_files
    /\ userLookups = <<>>
    /\ LET prev == Enumerate(Reversed(all_posts))[cursor].post
       IN  /\ Excluded(prev, before, after)
           /\ prev.user_id \notin DOMAIN user_id_to_name
           /\ "files" \in DOMAIN prev.metadata
           /\ prev.metadata.files # <<>>

====
